---- MODULE Spec2Model ----
(***************************************************************************)
(* Feature-flag library nussjustin/feature: decision resolution            *)
(* (Flag.Enabled, strategy chains) and the dual-path executor              *)
(* (Switch / Experiment).                                                  *)
(*                                                                         *)
(* The source tree holds several generations of the package side by side.  *)
(* The variable gen names the generation a behaviour runs:                 *)
(*   "otel"   src/unnamed/part_004            Case[T] with flag strategies *)
(*   "free"   src/feature.go:819-1290         Experiment/Switch, chains    *)
(*   "cfg"    src/unnamed/part_003:1-498      as free, with Config.Default *)
(*   "bool"   src/unnamed/part_003:499-895    boolean strategies           *)
(*   "switch" src/feature.go:1-295            boolean strategies, Switch   *)
(*   "values" src/unnamed/part_002:255-579    FlagSet with typed flags and *)
(*                 src/unnamed/part_006        values carried by a Context  *)
(*   "registry" src/unnamed/part_002:1-254    FlagSet reading a Registry   *)
(*   "defaults" src/unnamed/part_005          as registry, flags with a    *)
(*                                             default value                *)
(***************************************************************************)
EXTENDS Integers, Sequences, FiniteSets, TLC

VARIABLES
    gen,          \* generation of the package in use
    flag,         \* the *Flag under evaluation: default decision, own strategy
    dying,        \* a goroutine has panicked unrecovered: the process will exit
    strategy,     \* Set.strategy  (atomic.Pointer[Strategy])
    given,        \* arguments (strategy, others...) of the last SetStrategy call
    replaced,     \* decision of the strategy the last SetStrategy(s) replaced
    tracer,       \* Set.tracer    (atomic.Pointer[Tracer])
    op,           \* operation the caller is in: Enabled, Switch, Experiment
    pc,           \* position of the caller inside op
    d,            \* Flag.Enabled: the Decision computed, not yet traced
    consulted,    \* Flag.Enabled: strategies whose Enabled method was called
    evaluations,  \* calls of flag.Enabled made by op so far
    trail,        \* chainStrategy.Enabled: decisions of the strategies called
    loaded,       \* Flag.Enabled: the strategy loaded from the Set
    isEnabled,    \* local isEnabled / enabled of Switch and Experiment
    done,         \* completion callback returned by the Experiment/Run hook
    rendezvous,   \* the two functions wait for each other before returning
    branch,       \* per function: goroutine / run() frame
    invoked,      \* per function: number of times it was called
    equalsCalls,  \* number of calls of equals in this call
    equalsArgs,   \* arguments of the last call of equals
    ret,          \* (result, error) returned to the caller
    events,       \* tracer hook invocations of this call, in order
    store,        \* heap of flag maps: Set.flags / the sortedMap of a FlagSet
    flags,        \* per set: the address in store of its flags, 0 while nil
    heap,         \* heap of valuesMap, the maps carried by contexts
    ctxs,         \* the contexts made so far; ctxs[1] is context.Background()
    call,         \* the last registration, Context or accessor call that has
                  \* finished; none when a call of Context has just begun
    before,       \* heap and ctxs when the call of Context in call began
    listing,      \* a call of Set.Flags or of FlagSet.All in progress
    registry,     \* per set: FlagSet.registry  (atomic.Pointer[Registry])
    supplied,     \* per set: the Registry given to the last SetRegistry call
    mu,           \* per set: the goroutine holding Set.mu / FlagSet.flagsMu, or 0
    registrar,    \* per goroutine: its position in Set.newFlag / FlagSet.add
    pending       \* a call of Context that has copied s.flags and not returned

\* the state of Flag.Enabled, Switch and Experiment
setVars ==
    <<gen, flag, dying, strategy, given, replaced, tracer, op, pc, d, consulted, evaluations, trail, loaded, isEnabled,
      done, rendezvous, branch, invoked, equalsCalls, equalsArgs, ret, events>>

\* the state of registration, listing and Context
flagSetVars ==
    <<store, flags, heap, ctxs, call, before, listing, registry, supplied, mu, registrar, pending>>

\* the goroutines inside a registration or inside a call of Context
lockVars ==
    <<mu, registrar, pending>>

\* the state of SetRegistry
registryVars ==
    <<registry, supplied>>

vars ==
    <<gen, flag, dying, strategy, given, replaced, tracer, op, pc, d, consulted, evaluations, trail, loaded, isEnabled,
      done, rendezvous, branch, invoked, equalsCalls, equalsArgs, ret, events,
      store, flags, heap, ctxs, call, before, listing, registry, supplied, mu, registrar, pending>>

----------------------------------------------------------------------------
(* Bounds *)

\* longest argument list given to SetStrategy (strategy, others...)
MaxChain ==
    3

\* contexts a program derives with Context
MaxContexts ==
    2

\* values given to one call of Context
MaxValues ==
    2

----------------------------------------------------------------------------
(* Generations *)

Gens ==
    {"otel", "free", "cfg", "bool", "switch"}

\* generations that have an Experiment function
HasExperiment ==
    gen \in {"otel", "free", "cfg", "bool"}

\* generations whose strategies return a Decision (the others return bool)
HasDecisions ==
    gen \in {"otel", "free", "cfg"}

\* generations whose Set.SetStrategy takes (strategy, others...)
HasChain ==
    gen \in {"free", "cfg"}

\* generations with a Tracer struct of hooks (otel creates spans instead)
HasTracer ==
    gen \in {"free", "cfg", "bool", "switch"}

\* Experiment and Switch call the Experiment/Run hook before flag.Enabled
HookFirst ==
    gen \in {"free", "cfg"}

----------------------------------------------------------------------------
(* Decisions *)

\* NoDecision (named Default in generation otel)
NoDecision ==
    "no_decision"

Disabled ==
    "disabled"

Enabled ==
    "enabled"

\* the empty Decision, Config.Default left unset
EmptyDecision ==
    ""

Decisions ==
    {NoDecision, Disabled, Enabled}

If(cond) ==
    IF cond THEN Enabled ELSE Disabled

----------------------------------------------------------------------------
(* Values and errors.  Every error is a record of the same shape so that   *)
(* any two of them can be compared.                                        *)

\* the zero value of T
Zero ==
    0

NilErr ==
    [type |-> "nil", v |-> "", isErr |-> FALSE]

ErrorString(s) ==
    [type |-> "error", v |-> s, isErr |-> TRUE]

\* the nil interface value: panic(nil), and what recover() then returns
\* (the module declares go 1.19, src/unnamed/part_010:3)
NilValue ==
    [type |-> "nil", v |-> "", isErr |-> FALSE]

\* a string a function panics with
Boom ==
    [type |-> "string", v |-> "boom", isErr |-> FALSE]

\* &PanicError{Recovered: v}
PanicError(v) ==
    [type |-> "PanicError", v |-> v.v, isErr |-> v.isErr]

\* PanicError.Unwrap: Recovered if it is an error, nil otherwise
Unwrap(p) ==
    IF p.isErr THEN ErrorString(p.v) ELSE NilErr

IsPanicError(e) ==
    e.type = "PanicError"


----------------------------------------------------------------------------
(* Strategies.  A Strategy interface value is nil, a fixed strategy        *)
(* (FixedStrategy(d), or a Decision used as a Strategy) or a chainStrategy *)
(* of fixed strategies.                                                    *)

NilStrategy ==
    [kind |-> "nil", d |-> "", chain |-> <<>>]

FixedStrategy(dec) ==
    [kind |-> "fixed", d |-> dec, chain |-> <<>>]

\* chainStrategy(chain): chain holds the decisions of its fixed strategies
ChainStrategy(chain) ==
    [kind |-> "chain", d |-> "", chain |-> chain]

\* the nil *Strategy / *Tracer of a zero Set
NilPtr ==
    [kind |-> "nilptr", d |-> "", chain |-> <<>>]

RECURSIVE SkipNilStopsAtNil(_)
\* SkipNil with the loop left at the first nil strategy
SkipNilStopsAtNil(strategies) ==
    IF strategies = <<>> THEN <<>>
    ELSE IF Head(strategies).kind = "nil" THEN <<>>
    ELSE <<Head(strategies).d>> \o SkipNilStopsAtNil(Tail(strategies))

RECURSIVE SkipNil(_)
\* the loop of chainStrategies: keep the non-nil strategies, in order
SkipNil(strategies) ==
    IF strategies = <<>> THEN <<>>
    ELSE IF Head(strategies).kind = "nil" THEN SkipNil(Tail(strategies))
    ELSE <<Head(strategies).d>> \o SkipNil(Tail(strategies))

chainStrategies(strategies) ==
    LET chain == SkipNil(strategies)
    IN  IF Len(chain) = 0 THEN NilStrategy ELSE ChainStrategy(chain)

RECURSIVE ChainLoop(_, _)
\* the loop of chainStrategy.Enabled from entry i on: the decision and the
\* number of entries whose Enabled method was called
ChainLoop(c, i) ==
    IF i > Len(c) THEN [d |-> NoDecision, n |-> Len(c)]
    ELSE IF c[i] # NoDecision THEN [d |-> c[i], n |-> i]
    ELSE ChainLoop(c, i + 1)

\* chainStrategyEnabled with the early return lost: every entry is called
\* and the last decision made wins
chainStrategyEnabledLast(c) ==
    LET made == {i \in 1..Len(c) : c[i] # NoDecision}
    IN  IF made = {} THEN [d |-> NoDecision, n |-> Len(c)]
        ELSE [d |-> c[CHOOSE i \in made : \A j \in made : j <= i], n |-> Len(c)]

chainStrategyEnabled(c) ==
    ChainLoop(c, 1)

\* (*s).Enabled(ctx, flag) for a non-nil interface value s
StrategyEnabled(s) ==
    IF s.kind = "chain" THEN chainStrategyEnabled(s.chain)
    ELSE [d |-> s.d, n |-> 1]

\* StoredStrategy with a strategy that is set kept when another is given
StoredStrategyKeepsFirst(g, args) ==
    IF strategy # NilPtr THEN strategy
    ELSE IF g \in {"free", "cfg"}
    THEN LET s == IF Len(args) > 1 THEN chainStrategies(args) ELSE args[1]
         IN  IF s.kind = "nil" THEN NilPtr ELSE s
    ELSE IF g = "otel" /\ args[1].kind = "nil" THEN NilPtr
    ELSE args[1]

\* the value Set.SetStrategy stores for the arguments (strategy, others...)
StoredStrategy(g, args) ==
    CASE g \in {"free", "cfg"} ->
            LET s == IF Len(args) > 1 THEN chainStrategies(args) ELSE args[1]
            IN  IF s.kind = "nil" THEN NilPtr ELSE s
      [] g = "otel" ->
            IF args[1].kind = "nil" THEN NilPtr ELSE args[1]
      [] OTHER ->
            \* the nil check is on the receiver: &strategy is stored as given
            args[1]

\* strategies a caller can pass in generation g
StrategyArgs(g) ==
    {NilStrategy} \cup
    {FixedStrategy(x) : x \in IF g \in {"otel", "free", "cfg"}
                                THEN Decisions ELSE {Disabled, Enabled}}

\* argument lists (strategy, others...) of SetStrategy in generation g, of at
\* most max strategies
SetStrategyArgs(g, max) ==
    IF g \in {"free", "cfg"}
    THEN UNION {[1..n -> StrategyArgs(g)] : n \in 1..max}
    ELSE [1..1 -> StrategyArgs(g)]

----------------------------------------------------------------------------
(* Flags *)

\* Set.newFlag: the Flag registered for a default decision and a flag-level
\* strategy (generation otel only)
newFlag(g, def, strat) ==
    CASE g = "cfg"  -> [decision |-> IF def = EmptyDecision THEN NoDecision ELSE def,
                        strategy |-> NilStrategy]
      [] g = "otel" -> [decision |-> def, strategy |-> strat]
      [] OTHER      -> [decision |-> NoDecision, strategy |-> NilStrategy]

\* flags a caller can register in generation g
FlagArgs(g) ==
    CASE g = "cfg"  -> {newFlag(g, def, NilStrategy) :
                            def \in Decisions \cup {EmptyDecision}}
      [] g = "otel" -> {newFlag(g, def, s) :
                            def \in {Disabled, Enabled}, s \in StrategyArgs(g)}
      [] OTHER      -> {newFlag(g, NoDecision, NilStrategy)}

\* FlagDecision with the flag's default consulted before the strategy of the
\* Set
FlagDecisionDefaultFirst(g, f, s) ==
    LET set == IF s.kind \in {"nilptr", "nil"}
               THEN [d |-> NoDecision, n |-> 0] ELSE StrategyEnabled(s)
    IN  IF f.decision # NoDecision
        THEN [d |-> f.decision, n |-> 0, panics |-> FALSE]
        ELSE IF set.d # NoDecision
        THEN [d |-> set.d, n |-> set.n, panics |-> FALSE]
        ELSE [d |-> Disabled, n |-> set.n, panics |-> FALSE]

\* Flag.Enabled up to the call of trace: the final Decision, the set-level
\* strategies consulted, and whether the evaluation panics
FlagDecision(g, f, s) ==
    LET set == IF s.kind \in {"nilptr", "nil"}
               THEN [d |-> NoDecision, n |-> 0] ELSE StrategyEnabled(s)
    IN  CASE g = "otel" ->
                IF f.strategy.kind # "nil" /\ f.strategy.d # NoDecision
                THEN [d |-> f.strategy.d, n |-> 0, panics |-> FALSE]
                ELSE IF set.d # NoDecision
                THEN [d |-> set.d, n |-> set.n, panics |-> FALSE]
                ELSE [d |-> f.decision, n |-> set.n, panics |-> FALSE]
          [] g = "free" ->
                IF set.d # NoDecision
                THEN [d |-> set.d, n |-> set.n, panics |-> FALSE]
                ELSE [d |-> Disabled, n |-> set.n, panics |-> FALSE]
          [] g = "cfg" ->
                IF set.d # NoDecision
                THEN [d |-> set.d, n |-> set.n, panics |-> FALSE]
                ELSE [d |-> f.decision, n |-> set.n, panics |-> FALSE]
          [] OTHER ->
                \* no strategy: panic("no Strategy configured for set");
                \* a stored nil interface: nil dereference
                IF s.kind \in {"nilptr", "nil"}
                THEN [d |-> NoDecision, n |-> 0, panics |-> TRUE]
                ELSE [d |-> set.d, n |-> set.n, panics |-> FALSE]


----------------------------------------------------------------------------
(* Tracers.  The hooks are named as in generation cfg; Branch is Case in   *)
(* free and ExperimentBranch in bool, Run is Switch in bool and switch.    *)

ZeroTracer ==
    [nilptr |-> FALSE, Decision |-> FALSE, Branch |-> FALSE,
     BranchPanicked |-> FALSE, Experiment |-> FALSE, Run |-> FALSE]

NilTracerPtr ==
    [ZeroTracer EXCEPT !.nilptr = TRUE]

FullTracer(g) ==
    [nilptr |-> FALSE, Decision |-> TRUE, Branch |-> g # "switch",
     BranchPanicked |-> g \in {"free", "cfg"}, Experiment |-> g # "switch",
     Run |-> TRUE]

\* tracers a caller can pass to SetTracer
TracerArgs(g) ==
    {ZeroTracer, FullTracer(g)}

\* getTracer with the stored Tracer never found
getTracerZero ==
    ZeroTracer

\* Set.getTracer: the stored Tracer, or Tracer{} while none is stored
getTracer ==
    IF tracer.nilptr THEN ZeroTracer ELSE tracer

\* a completion callback returned by a hook: nil or a function
Callbacks ==
    {"nil", "fn"}

\* one hook invocation
Event(hook, dec, result, err, ok) ==
    [hook |-> hook, d |-> dec, result |-> result, err |-> err, ok |-> ok]

----------------------------------------------------------------------------
(* The functions given to Switch and Experiment.  "E" is experimental /    *)
(* ifEnabled, "D" is control / ifDisabled.                                 *)

Branches ==
    {"E", "D"}

Other(b) ==
    IF b = "E" THEN "D" ELSE "E"

Return(result, err) ==
    [panics |-> FALSE, result |-> result, err |-> err]

Panic(v) ==
    [panics |-> TRUE, result |-> Zero, err |-> v]

\* what a function does when it is called: it returns, or it panics with an
\* error, a string or nil
Outcomes(b) ==
    IF b = "E"
    THEN {Return(2, NilErr), Return(1, NilErr), Return(2, ErrorString("error 2")),
          Panic(ErrorString("failed")), Panic(NilValue)}
    ELSE {Return(1, NilErr), Return(1, ErrorString("error 1")),
          Panic(Boom), Panic(NilValue)}

\* the function has not finished
NoOutcome ==
    [panics |-> FALSE, result |-> Zero, err |-> [type |-> "none", v |-> "", isErr |-> FALSE]]

\* Equals[T]: a == b
Equals(a, b) ==
    a = b

\* a goroutine or run() frame that has not started
NoBranch ==
    [st |-> "none", t |-> ZeroTracer, cb |-> "nil", out |-> NoOutcome,
     result |-> Zero, err |-> NilErr, log |-> <<>>]

NoRet ==
    [result |-> Zero, err |-> NilErr]

\* the function goes through run(): Experiment always, Switch in free and cfg
UsesRun ==
    IF op = "Experiment" THEN TRUE ELSE gen \in {"free", "cfg"}

\* a panic of the function is recovered and turned into a PanicError
Recovers ==
    IF op = "Experiment" THEN gen \in {"otel", "free", "cfg"}
    ELSE gen \in {"free", "cfg"}

\* the Decision passed to the branch hook for function b
BranchDecision(b) ==
    IF b = "E" THEN Enabled ELSE Disabled

----------------------------------------------------------------------------
(* Registered flags.  A program has two sets; flag names are numbered in   *)
(* their sort order, 0 being the empty name.  In generation free a set is  *)
(* a Set with a map of flags, in generation values a FlagSet with a        *)
(* sortedMap.                                                              *)

Sets ==
    {"A", "B"}

Names ==
    {1, 2, 3}

valueKindBool ==
    "bool"

valueKindInt ==
    "int"

\* a value of type any: nil, a bool or an int
NilAny ==
    [kind |-> "", bool |-> FALSE, int |-> 0]

AnyBool(b) ==
    [kind |-> valueKindBool, bool |-> b, int |-> 0]

AnyInt(i) ==
    [kind |-> valueKindInt, bool |-> FALSE, int |-> i]

\* Flag{}: what a map of flags holds for a name that is not registered
NoFlag ==
    [Name |-> 0, Value |-> NilAny, Description |-> ""]

\* Flag{Name: name, Value: value} after the options were applied
NewFlag(name, value, desc) ==
    [Name |-> name, Value |-> value, Description |-> desc]

\* sortedMap[Flag]{}
ZeroSortedMap ==
    [m |-> [n \in Names |-> NoFlag], keys |-> <<>>]

RECURSIVE SortByName(_)
\* slices.Sort / sort.Slice by name
SortByName(seq) ==
    IF seq = <<>> THEN <<>>
    ELSE LET least == CHOOSE x \in {seq[i] : i \in DOMAIN seq} :
                          \A i \in DOMAIN seq : x <= seq[i]
             at == CHOOSE i \in DOMAIN seq :
                       seq[i] = least /\ \A j \in 1..(i - 1) : seq[j] # least
         IN  <<least>> \o SortByName(SubSeq(seq, 1, at - 1) \o SubSeq(seq, at + 1, Len(seq)))

\* sortedMap.add(key, val): the map returned
addMany(sm, key, val) ==
    LET keys == IF sm.m[key] = NoFlag THEN Append(sm.keys, key) ELSE sm.keys
    IN  [m    |-> [sm.m EXCEPT ![key] = val],
         keys |-> IF Len(sm.keys) # Len(keys) THEN SortByName(keys) ELSE keys]

\* the flags at address a of the store; address 0 is the nil map
Deref(st, a) ==
    IF a = 0 THEN ZeroSortedMap ELSE st[a]

\* names registered in the flags at address a
Registered(st, a) ==
    {n \in Names : Deref(st, a).m[n] # NoFlag}

\* addTarget with the map written in place
addTargetInPlace(g, st, a) ==
    IF a = 0 THEN Len(st) + 1 ELSE a

\* the address written by a registration: sortedMap.add writes to clones of
\* the map and of the keys, Set.newFlag to the map of the Set
addTarget(g, st, a) ==
    IF g # "free" \/ a = 0 THEN Len(st) + 1 ELSE a

\* the registrations a program makes: (set, name, default value, description)
RegisterArgs(g) ==
    IF g = "values"
    THEN {<<"A", 1, AnyBool(FALSE), "">>, <<"A", 1, AnyInt(5), "description">>,
          <<"A", 2, AnyInt(5), "">>, <<"B", 1, AnyBool(FALSE), "">>}
    ELSE IF g = "defaults"
    THEN {<<"A", 1, AnyBool(FALSE), "">>, <<"A", 1, AnyBool(TRUE), "">>,
          <<"A", 2, AnyBool(TRUE), "">>, <<"B", 1, AnyBool(FALSE), "">>}
    ELSE {<<"A", n, NilAny, desc>> : n \in Names, desc \in {"", "description"}}

\* a finished call: operation, set, flag name, context, values (of a
\* registration: the flag built from the arguments), whether it
\* panicked, the value returned and the context returned (indices of ctxs)
CallRecord(o, set, name, ctx, values, panics, result, made) ==
    [op |-> o, set |-> set, name |-> name, ctx |-> ctx, values |-> values,
     panics |-> panics, result |-> result, made |-> made]

NoCall ==
    CallRecord("none", "A", 0, 0, <<>>, FALSE, NilAny, 0)

\* a Registry: nil, or an implementation answering Bool(ctx, name)
Registry(bool) ==
    [nil |-> FALSE, Bool |-> bool]

\* the nil Registry, and the nil *Registry a zero FlagSet holds
NilRegistry ==
    [nil |-> TRUE, Bool |-> [n \in Names |-> FALSE]]

\* the registries a program sets: nil and SimpleRegistry values with a BoolFunc
RegistryArgs ==
    {NilRegistry, Registry([n \in Names |-> TRUE]), Registry([n \in Names |-> FALSE]),
     Registry([n \in Names |-> n = 1])}

\* the goroutines that register flags concurrently
Registrars ==
    {1, 2, 3}

\* a goroutine that has not called a registration function
IdleRegistrar ==
    [st |-> "idle", set |-> "A", f |-> NoFlag]

\* what before holds while call is no call of Context
NoBefore ==
    [heap |-> <<>>, ctxs |-> <<>>, ref |-> 0]

\* no call of Context between its copy of s.flags and its return
NoPending ==
    [st |-> "none", set |-> "A", ctx |-> 0, values |-> <<>>, ref |-> 0]

\* no listing in progress
NoListing ==
    [pc |-> "idle", set |-> "A", ref |-> 0, fs |-> <<>>, out |-> <<>>,
     at |-> {}, stopped |-> FALSE]

----------------------------------------------------------------------------
(* Values and contexts (generation values)                                 *)

\* Value{}
ZeroValue ==
    [name |-> 0, kind |-> valueKindBool, bool |-> FALSE, int |-> 0]

BoolValue(name, value) ==
    [name |-> name, kind |-> valueKindBool, bool |-> value, int |-> 0]

IntValue(name, value) ==
    [name |-> name, kind |-> valueKindInt, bool |-> FALSE, int |-> value]

\* the values a program passes to Context
ValueArgs ==
    {BoolValue(1, TRUE), BoolValue(1, FALSE), IntValue(2, 7)}

\* make(valuesMap): a map holding no name
EmptyValues ==
    [n \in Names |-> ZeroValue]

\* context.Background()
Background ==
    <<>>

\* context.WithValue(c, (*valuesMapKey)(set), m), m being an address of heap
WithValue(c, set, a) ==
    <<[key |-> set, m |-> a]>> \o c

\* CtxValue with one key shared by all sets
CtxValueAnyKey(c, set) ==
    IF c = <<>> THEN 0 ELSE Head(c).m

RECURSIVE CtxValueOldest(_, _)
\* CtxValue with the farthest layer of the set in place of the nearest
CtxValueOldest(c, set) ==
    IF c = <<>> THEN 0
    ELSE IF CtxValueOldest(Tail(c), set) # 0 THEN CtxValueOldest(Tail(c), set)
    ELSE IF Head(c).key = set THEN Head(c).m
    ELSE 0

RECURSIVE CtxValue(_, _)
\* c.Value((*valuesMapKey)(set)).(valuesMap): the address of the map of the
\* nearest layer of the set, 0 when there is none
CtxValue(c, set) ==
    IF c = <<>> THEN 0
    ELSE IF Head(c).key = set THEN Head(c).m
    ELSE CtxValue(Tail(c), set)

\* cloneTarget with the map of the parent context written in place
cloneTargetShared(hp, a) ==
    IF a = 0 THEN Len(hp) + 1 ELSE a

\* the address of the map Context writes to: a new map, or maps.Clone(m)
cloneTarget(hp, a) ==
    Len(hp) + 1

RECURSIVE ContextLoopUnchecked(_, _, _)
\* ContextLoop without the check of the kind
ContextLoopUnchecked(fl, m, values) ==
    IF values = <<>> THEN [m |-> m, panics |-> FALSE]
    ELSE LET v == Head(values)
             f == fl.m[v.name]
         IN  IF f = NoFlag THEN ContextLoopUnchecked(fl, m, Tail(values))
             ELSE ContextLoopUnchecked(fl, [m EXCEPT ![v.name] = v], Tail(values))

RECURSIVE ContextLoopKeepsUnknown(_, _, _)
\* ContextLoop storing the values that name no registered flag
ContextLoopKeepsUnknown(fl, m, values) ==
    IF values = <<>> THEN [m |-> m, panics |-> FALSE]
    ELSE LET v == Head(values)
             f == fl.m[v.name]
         IN  IF f # NoFlag /\ f.Value.kind # v.kind THEN [m |-> m, panics |-> TRUE]
             ELSE ContextLoopKeepsUnknown(fl, [m EXCEPT ![v.name] = v], Tail(values))

RECURSIVE ContextLoop(_, _, _)
\* the loop of Context over values: the map written so far and whether the
\* loop ended in panic(fmt.Errorf("invalid value for flag %q", v.name))
ContextLoop(fl, m, values) ==
    IF values = <<>> THEN [m |-> m, panics |-> FALSE]
    ELSE LET v == Head(values)
             f == fl.m[v.name]
         IN  IF f = NoFlag THEN ContextLoop(fl, m, Tail(values))
             ELSE IF f.Value.kind # v.kind THEN [m |-> m, panics |-> TRUE]
             ELSE ContextLoop(fl, [m EXCEPT ![v.name] = v], Tail(values))

\* FlagSet.value(ctx, name, kind): the Value and ok
value(hp, c, set, name, kind) ==
    LET a == CtxValue(c, set)
    IN  IF a = 0 THEN [v |-> ZeroValue, ok |-> FALSE]
        ELSE IF hp[a][name] = ZeroValue \/ hp[a][name].kind # kind
        THEN [v |-> ZeroValue, ok |-> FALSE]
        ELSE [v |-> hp[a][name], ok |-> TRUE]

\* the function returned by FlagSet.Bool / FlagSet.Int for the flag f,
\* called with the context c
Accessor(hp, c, set, f) ==
    LET r == value(hp, c, set, f.Name, f.Value.kind)
    IN  IF ~r.ok THEN f.Value
        ELSE IF f.Value.kind = valueKindBool THEN AnyBool(r.v.bool)
        ELSE AnyInt(r.v.int)

----------------------------------------------------------------------------
(* Initial state: a zero Set with one registered flag.                     *)

\* no flag registered, no context made, no call made
FlagSetInit ==
    /\ store = <<>>
    /\ flags = [s \in Sets |-> 0]
    /\ heap = <<>>
    /\ ctxs = <<Background>>
    /\ call = NoCall
    /\ before = NoBefore
    /\ listing = NoListing
    /\ registry = [s \in Sets |-> NilRegistry]
    /\ supplied = [s \in Sets |-> NilRegistry]
    /\ mu = [s \in Sets |-> 0]
    /\ registrar = [p \in Registrars |-> IdleRegistrar]
    /\ pending = NoPending

\* the initial state of a program using one of the generations gens
InitOf(gens) ==
    /\ gen \in gens
    /\ flag \in FlagArgs(gen)
    /\ dying = FALSE
    /\ strategy = NilPtr
    /\ given = <<>>
    /\ replaced = NoDecision
    /\ tracer = NilTracerPtr
    /\ op = "none"
    /\ pc = "idle"
    /\ d = NoDecision
    /\ consulted = 0
    /\ evaluations = 0
    /\ trail = <<>>
    /\ loaded = NilPtr
    /\ isEnabled = FALSE
    /\ done = "nil"
    /\ rendezvous = FALSE
    /\ branch = [b \in Branches |-> NoBranch]
    /\ invoked = [b \in Branches |-> 0]
    /\ equalsCalls = 0
    /\ equalsArgs = <<Zero, Zero>>
    /\ ret = NoRet
    /\ events = <<>>
    /\ FlagSetInit

Init ==
    InitOf(Gens)

\* the caller is between two calls
AtRest ==
    pc \in {"idle", "returned", "panicked"}

\* the process has not been taken down by a panic in a goroutine
Alive ==
    pc # "crashed"

----------------------------------------------------------------------------
(* Configuration, possibly from another goroutine                          *)

SetStrategy(args) ==
    /\ Alive
    /\ strategy' = StoredStrategy(gen, args)
    /\ given' = args
    /\ UNCHANGED flagSetVars
    /\ UNCHANGED <<gen, flag, dying, tracer, op, pc, d, consulted, evaluations, trail, loaded, isEnabled, done,
                   rendezvous, branch, invoked, equalsCalls, equalsArgs, ret,
                   events>>

SetTracer(t) ==
    /\ Alive
    /\ HasTracer
    /\ tracer' = t
    /\ UNCHANGED flagSetVars
    /\ UNCHANGED <<gen, flag, dying, strategy, given, replaced, op, pc, d, consulted, evaluations, trail, loaded, isEnabled, done,
                   rendezvous, branch, invoked, equalsCalls, equalsArgs, ret,
                   events>>

----------------------------------------------------------------------------
(* Entering Flag.Enabled, Switch or Experiment                             *)

Call(o, rv) ==
    /\ AtRest
    /\ o = "Experiment" => HasExperiment
    /\ rv => o = "Experiment"
    /\ op' = o
    /\ pc' = "entry"
    /\ d' = NoDecision
    /\ consulted' = 0
    /\ evaluations' = 0
    /\ trail' = <<>>
    /\ loaded' = NilPtr
    /\ isEnabled' = FALSE
    /\ done' = "nil"
    /\ rendezvous' = rv
    /\ branch' = [b \in Branches |-> NoBranch]
    /\ invoked' = [b \in Branches |-> 0]
    /\ equalsCalls' = 0
    /\ equalsArgs' = <<Zero, Zero>>
    /\ ret' = NoRet
    /\ events' = <<>>
    /\ UNCHANGED flagSetVars
    /\ UNCHANGED <<gen, flag, dying, strategy, given, replaced, tracer>>

\* position at which the Experiment/Run hook is called
HookAt ==
    IF HookFirst THEN "entry" ELSE "decided"

\* EnabledAt with flag.Enabled called a second time before the functions
EnabledAtAgain ==
    IF pc = "ready" /\ evaluations = 1 THEN "ready"
    ELSE IF op = "Enabled" \/ ~HookFirst THEN "entry" ELSE "hooked"

\* position at which flag.Enabled is called
EnabledAt ==
    IF op = "Enabled" \/ ~HookFirst THEN "entry" ELSE "hooked"

\* position after flag.Enabled has returned
AfterEnabled ==
    IF op = "Enabled" THEN "returned"
    ELSE IF HookFirst THEN "ready" ELSE "decided"

\* the Decision the Experiment/Run hook is given: none where it runs first
HookDecision ==
    IF HookFirst THEN NoDecision ELSE If(isEnabled)

\* Case.Experiment and Case.Run of generation otel start a span before
\* c.flag.Enabled(ctx): ctx, span := c.startSpan(ctx, ...) rebinds ctx to
\* the context Tracer.Start returned
SpanFirst ==
    gen = "otel" /\ op \in {"Switch", "Experiment"}

\* the context flag.Enabled(ctx) is called with: the one startSpan returned
\* in generation otel, the one the Experiment/Run hook returned where the
\* hook was called before, else the caller's
EnabledCtx ==
    IF SpanFirst THEN "span"
    ELSE IF HookFirst /\ \E i \in DOMAIN events : events[i].hook = op
    THEN "hook" ELSE "caller"

\* t.Experiment(ctx, flag) / t.Run(ctx, flag): the hook runs when it is set
\* and returns a completion callback, which can be nil
StartHook(cb) ==
    /\ op \in {"Switch", "Experiment"}
    /\ pc = HookAt
    /\ LET t == getTracer
           set == IF op = "Experiment" THEN t.Experiment ELSE t.Run
       IN  /\ ~set => cb = "nil"
           /\ done' = cb
           /\ events' = IF set
                        THEN Append(events, Event(op, HookDecision, Zero, NilErr, FALSE))
                        ELSE events
    /\ pc' = IF HookFirst THEN "hooked" ELSE "ready"
    /\ UNCHANGED flagSetVars
    /\ UNCHANGED <<gen, flag, dying, strategy, given, replaced, tracer, op, d, consulted, evaluations, trail, loaded, isEnabled,
                   rendezvous, branch, invoked, equalsCalls, equalsArgs, ret>>


----------------------------------------------------------------------------
(* Flag.Enabled, in two steps: the load of the strategy with its           *)
(* evaluation, and the load of the tracer with the Decision hook.          *)

EnabledLoad ==
    /\ op # "none"
    /\ pc = EnabledAt
    /\ loaded' = strategy
    /\ evaluations' = evaluations + 1
    /\ LET r == FlagDecision(gen, flag, strategy)
       IN  IF r.panics
           THEN /\ pc' = "panicked"
                /\ UNCHANGED <<d, consulted>>
           ELSE /\ pc' = "tracing"
                /\ d' = r.d
                /\ consulted' = r.n
    /\ UNCHANGED flagSetVars
    /\ UNCHANGED <<gen, flag, dying, strategy, given, replaced, tracer, op, isEnabled, done, rendezvous,
                   branch, invoked, equalsCalls, equalsArgs, ret, events, trail>>

\* the strategies (*s).Enabled calls in turn: none for a nil pointer, the
\* entries of a chainStrategy, else the strategy itself
ChainOf(s) ==
    IF s.kind \in {"nilptr", "nil"} THEN <<>>
    ELSE IF s.kind = "chain" THEN s.chain
    ELSE <<s.d>>

\* Walked with the strategy of the Set loaded again at every turn
WalkedReloaded ==
    ChainOf(strategy)

\* the strategies the evaluation in progress walks through: those of the
\* strategy loaded at its start
Walked ==
    ChainOf(loaded)

\* Flag.Enabled: s := f.set.strategy.Load()
Load ==
    /\ op = "Enabled"
    /\ HasChain
    /\ pc = "entry"
    /\ loaded' = strategy
    /\ evaluations' = evaluations + 1
    /\ pc' = "chain"
    /\ UNCHANGED flagSetVars
    /\ UNCHANGED <<gen, flag, dying, strategy, given, replaced, tracer, op, d, consulted, trail,
                   isEnabled, done, rendezvous, branch, invoked, equalsCalls,
                   equalsArgs, ret, events>>

\* Flag.Enabled: one turn of (*s).Enabled(ctx, f), the call of the next
\* strategy, or past the last one the default decision of the flag
Consult ==
    /\ pc = "chain"
    /\ LET c == Walked
           i == Len(trail) + 1
       IN  IF i > Len(c)
           THEN /\ d' = FlagDecision(gen, flag, NilPtr).d
                /\ pc' = "tracing"
                /\ consulted' = Len(trail)
                /\ UNCHANGED trail
           ELSE /\ trail' = Append(trail, c[i])
                /\ IF c[i] # NoDecision
                   THEN /\ d' = c[i]
                        /\ pc' = "tracing"
                        /\ consulted' = i
                   ELSE UNCHANGED <<d, pc, consulted>>
    /\ UNCHANGED flagSetVars
    /\ UNCHANGED <<gen, flag, dying, strategy, given, replaced, tracer, op, evaluations, loaded,
                   isEnabled, done, rendezvous, branch, invoked, equalsCalls,
                   equalsArgs, ret, events>>

EnabledTrace ==
    /\ pc = "tracing"
    /\ events' = IF getTracer.Decision
                 THEN Append(events, Event("Decision", d, Zero, NilErr, FALSE))
                 ELSE events
    /\ isEnabled' = (d = Enabled)
    /\ loaded' = NilPtr
    /\ pc' = AfterEnabled
    /\ UNCHANGED flagSetVars
    /\ UNCHANGED <<gen, flag, dying, strategy, given, replaced, tracer, op, d, consulted, evaluations, trail, done,
                   rendezvous, branch, invoked, equalsCalls, equalsArgs, ret>>

----------------------------------------------------------------------------
(* Running the functions                                                   *)

\* Selected with the two functions confused
SelectedSwapped ==
    IF isEnabled THEN "D" ELSE "E"

\* Selected with the flag evaluated again when the result is chosen
SelectedAgain ==
    IF FlagDecision(gen, flag, strategy).d = Enabled THEN "E" ELSE "D"

\* the function whose result is returned
Selected ==
    IF isEnabled THEN "E" ELSE "D"

\* SwitchCalls with both functions called
SwitchCallsBoth ==
    Branches

\* the functions Switch calls
SwitchCalls ==
    {Selected}

\* Experiment: go func() { ... run(experimental) }(); go func() { ... }()
Fork ==
    /\ op = "Experiment"
    /\ pc = "ready"
    /\ branch' = [b \in Branches |-> [NoBranch EXCEPT !.st = "spawned"]]
    /\ pc' = "waiting"
    /\ UNCHANGED flagSetVars
    /\ UNCHANGED <<gen, flag, dying, strategy, given, replaced, tracer, op, d, consulted, evaluations, trail, loaded, isEnabled,
                   done, rendezvous, invoked, equalsCalls, equalsArgs, ret,
                   events>>

\* Switch: fn := ifDisabled; if enabled { fn = ifEnabled }; run(fn) / fn(ctx)
SwitchDispatch ==
    /\ op = "Switch"
    /\ pc = "ready"
    /\ branch' = [b \in Branches |->
                    IF b \in SwitchCalls
                    THEN [NoBranch EXCEPT !.st = "spawned"] ELSE NoBranch]
    /\ pc' = "running"
    /\ UNCHANGED flagSetVars
    /\ UNCHANGED <<gen, flag, dying, strategy, given, replaced, tracer, op, d, consulted, evaluations, trail, loaded, isEnabled,
                   done, rendezvous, invoked, equalsCalls, equalsArgs, ret,
                   events>>

\* Scheduled with the functions called one after the other
ScheduledInTurn(b) ==
    /\ branch[b].st = "spawned"
    /\ b = "D" => branch["E"].st = "done"

\* the goroutine of function b may take its first step
Scheduled(b) ==
    branch[b].st = "spawned"

\* run() up to the call of f: the tracer is loaded once, the branch hook is
\* called and its callback deferred; then f starts
BranchBegin(b, cb) ==
    /\ pc \in {"waiting", "running"}
    /\ Scheduled(b)
    /\ LET t == IF UsesRun THEN getTracer ELSE ZeroTracer
       IN  /\ ~t.Branch => cb = "nil"
           /\ branch' = [branch EXCEPT ![b] =
                  [st |-> "running", t |-> t, cb |-> cb, out |-> NoOutcome,
                   result |-> Zero, err |-> NilErr,
                   log |-> IF t.Branch
                           THEN <<Event("Branch", BranchDecision(b), Zero, NilErr, FALSE)>>
                           ELSE <<>>]]
    /\ invoked' = [invoked EXCEPT ![b] = @ + 1]
    /\ UNCHANGED flagSetVars
    /\ UNCHANGED <<gen, flag, dying, strategy, given, replaced, tracer, op, pc, d, consulted, evaluations, trail, loaded, isEnabled,
                   done, rendezvous, equalsCalls, equalsArgs, ret, events>>

\* the deferred recover of run(): the error of a function that panicked with
\* v.  recover() returns nil for panic(nil), and err stays nil
RecoveredErr(v) ==
    IF v # NilValue THEN PanicError(v) ELSE NilErr

\* Deferred with the callback of the branch hook called after f instead of
\* deferred: a panic of f skips it
DeferredAfterReturn(b, out, result, err) ==
    (IF out.panics /\ Recovers /\ out.err # NilValue /\ branch[b].t.BranchPanicked
     THEN <<Event("BranchPanicked", BranchDecision(b), Zero, err, FALSE)>>
     ELSE <<>>)
    \o
    (IF branch[b].cb = "fn" /\ ~out.panics
     THEN <<Event("BranchDone", BranchDecision(b), result, err, FALSE)>>
     ELSE <<>>)

\* the deferred calls of run() once f has ended with (result, err), err being
\* RecoveredErr(v) after a panic: the events of the hooks called
Deferred(b, out, result, err) ==
    (IF out.panics /\ Recovers /\ out.err # NilValue /\ branch[b].t.BranchPanicked
     THEN <<Event("BranchPanicked", BranchDecision(b), Zero, err, FALSE)>>
     ELSE <<>>)
    \o
    (IF branch[b].cb = "fn"
     THEN <<Event("BranchDone", BranchDecision(b), result, err, FALSE)>>
     ELSE <<>>)

\* f returns or panics, and run() unwinds
BranchEnd(b, out) ==
    /\ pc \in {"waiting", "running"}
    /\ branch[b].st = "running"
    /\ out \in Outcomes(b)
    /\ rendezvous => /\ invoked[Other(b)] > 0
                     /\ out = IF b = "E" THEN Return(2, NilErr) ELSE Return(1, NilErr)
    /\ LET result == IF out.panics THEN Zero ELSE out.result
           err == IF ~out.panics THEN out.err
                  ELSE IF Recovers THEN RecoveredErr(out.err) ELSE NilErr
       IN  branch' = [branch EXCEPT ![b] =
               [@ EXCEPT !.st = IF out.panics /\ ~Recovers THEN "panicking" ELSE "done",
                         !.out = out,
                         !.result = result,
                         !.err = err,
                         !.log = @ \o Deferred(b, out, result, err)]]
    /\ pc' = IF out.panics /\ ~Recovers /\ op # "Experiment"
             THEN \* the panic leaves Switch
                  "panicked"
             ELSE pc
    \* a panic that unwinds a goroutine of Experiment runs its deferred calls
    \* (the callback of the branch hook, wg.Done()); the runtime ends the
    \* process afterwards
    /\ dying' = (dying \/ (out.panics /\ ~Recovers /\ op = "Experiment"))
    /\ UNCHANGED flagSetVars
    /\ UNCHANGED <<gen, flag, strategy, given, replaced, tracer, op, d, consulted, evaluations, trail, loaded, isEnabled,
                   done, rendezvous, invoked, equalsCalls, equalsArgs, ret,
                   events>>

\* the runtime ends the process after an unrecovered panic of a goroutine
Crash ==
    /\ dying
    /\ pc # "crashed"
    /\ pc' = "crashed"
    /\ UNCHANGED flagSetVars
    /\ UNCHANGED <<gen, flag, dying, strategy, given, replaced, tracer, op, d, consulted,
                   evaluations, trail, loaded, isEnabled, done, rendezvous, branch,
                   invoked, equalsCalls, equalsArgs, ret, events>>

\* Joined with only the selected function waited for
JoinedSelected ==
    branch[Selected].st \in {"done", "panicking"}

\* wg.Wait() returns: both goroutines have called wg.Done(), which is
\* deferred and runs also when the function panics
Joined ==
    \A b \in Branches : branch[b].st \in {"done", "panicking"}

\* EqualsInvocations with the results compared whatever the errors are
EqualsInvocationsAlways(g, experimentErr, controlErr, en) ==
    1

\* number of calls of equals, from the errors of the two functions:
\* the && chain of Experiment, the switch of handleExperimentResult in otel
EqualsInvocations(g, experimentErr, controlErr, en) ==
    IF g = "otel"
    THEN CASE experimentErr # NilErr /\ controlErr # NilErr -> 0
           [] experimentErr # NilErr /\ en -> 0
           [] controlErr # NilErr /\ ~en -> 0
           [] experimentErr # NilErr -> 0
           [] controlErr # NilErr -> 0
           [] OTHER -> 1
    ELSE IF controlErr = NilErr /\ experimentErr = NilErr THEN 1 ELSE 0

\* Experiment after wg.Wait(): select, compare, report, return
ExperimentFinish ==
    /\ op = "Experiment"
    /\ pc = "waiting"
    /\ Joined
    /\ LET result == branch[Selected].result
           err == branch[Selected].err
           n == EqualsInvocations(gen, branch["E"].err, branch["D"].err, isEnabled)
           ok == n > 0 /\ Equals(branch["E"].result, branch["D"].result)
       IN  /\ equalsCalls' = n
           /\ equalsArgs' = IF n > 0
                            THEN <<branch["E"].result, branch["D"].result>>
                            ELSE equalsArgs
           /\ events' = IF done = "fn"
                        THEN Append(events, Event("ExperimentDone", If(isEnabled), result, err, ok))
                        ELSE events
           /\ ret' = [result |-> result, err |-> err]
    /\ pc' = "returned"
    /\ UNCHANGED flagSetVars
    /\ UNCHANGED <<gen, flag, dying, strategy, given, replaced, tracer, op, d, consulted, evaluations, trail, loaded, isEnabled,
                   done, rendezvous, branch, invoked>>

\* Switch after the function has returned: report, return
SwitchFinish ==
    /\ op = "Switch"
    /\ pc = "running"
    /\ branch[Selected].st = "done"
    /\ LET result == branch[Selected].result
           err == branch[Selected].err
       IN  /\ events' = IF done = "fn"
                        THEN Append(events, Event("SwitchDone", If(isEnabled), result, err, FALSE))
                        ELSE events
           /\ ret' = [result |-> result, err |-> err]
    /\ pc' = "returned"
    /\ UNCHANGED flagSetVars
    /\ UNCHANGED <<gen, flag, dying, strategy, given, replaced, tracer, op, d, consulted, evaluations, trail, loaded, isEnabled,
                   done, rendezvous, branch, invoked, equalsCalls, equalsArgs>>

----------------------------------------------------------------------------
(* Registration and listing                                                *)

\* isDuplicate with the check of the name lost
isDuplicateNever(sm, name) ==
    FALSE

\* if _, ok := s.flags[name]; ok
isDuplicate(sm, name) ==
    sm.m[name] # NoFlag

\* Set.newFlag / FlagSet.add under the mutex of the set
Register(set, name, val, desc) ==
    /\ gen \in {"free", "values", "registry", "defaults"}
    /\ LET a == flags[set]
           cur == Deref(store, a)
           f == NewFlag(name, val, desc)
           t == addTarget(gen, store, a)
           new == IF gen # "free" THEN addMany(cur, name, f)
                  ELSE [cur EXCEPT !.m[name] = f]
       IN  IF isDuplicate(cur, name)
           THEN /\ call' = CallRecord("Register", set, name, 0, <<f>>, TRUE, NilAny, 0)
                /\ UNCHANGED <<store, flags>>
           ELSE /\ store' = IF t > Len(store) THEN Append(store, new)
                            ELSE [store EXCEPT ![t] = new]
                /\ flags' = [flags EXCEPT ![set] = t]
                /\ call' = CallRecord("Register", set, name, 0, <<f>>, FALSE, val, 0)
    /\ before' = NoBefore
    /\ UNCHANGED <<heap, ctxs, listing>>
    /\ UNCHANGED registryVars
    /\ UNCHANGED lockVars
    /\ UNCHANGED setVars

\* the orders in which a range over a map can visit the names of S
Orders(S) ==
    {o \in [1..Cardinality(S) -> S] : \A i, j \in DOMAIN o : o[i] = o[j] => i = j}

\* Set.Flags up to s.mu.Unlock(): the flags are copied in the order of the
\* map.  FlagSet.All up to s.flagsMu.Unlock(): flags := s.flags
ListSnapshot(set, order) ==
    /\ gen \in {"free", "values"}
    /\ listing.pc \in {"idle", "done"}
    /\ order \in Orders(Registered(store, flags[set]))
    /\ listing' =
          [pc |-> IF gen = "free" THEN "copied" ELSE "iterating",
           set |-> set,
           ref |-> IF gen = "free" THEN 0 ELSE flags[set],
           fs |-> IF gen = "free"
                  THEN [i \in DOMAIN order |-> Deref(store, flags[set]).m[order[i]]]
                  ELSE <<>>,
           out |-> <<>>,
           at |-> Registered(store, flags[set]),
           stopped |-> FALSE]
    /\ UNCHANGED <<store, flags, heap, ctxs, call, before>>
    /\ UNCHANGED registryVars
    /\ UNCHANGED lockVars
    /\ UNCHANGED setVars

\* Set.Flags after the unlock: sort.Slice by name, return fs
ListSort ==
    /\ listing.pc = "copied"
    /\ LET fs == listing.fs
           names == SortByName([i \in DOMAIN fs |-> fs[i].Name])
       IN  listing' =
              [listing EXCEPT
                 !.pc = "done",
                 !.out = [i \in DOMAIN names |->
                             fs[CHOOSE j \in DOMAIN fs : fs[j].Name = names[i]]]]
    /\ UNCHANGED <<store, flags, heap, ctxs, call, before>>
    /\ UNCHANGED registryVars
    /\ UNCHANGED lockVars
    /\ UNCHANGED setVars

\* FlagSet.All: one turn of the loop over flags.keys; more tells whether
\* yield asks for more
ListYield(more) ==
    /\ listing.pc = "iterating"
    /\ LET fl == Deref(store, listing.ref)
           i == Len(listing.out) + 1
       IN  IF i > Len(fl.keys)
           THEN /\ more
                /\ listing' = [listing EXCEPT !.pc = "done"]
           ELSE listing' =
                   [listing EXCEPT
                      !.out = Append(@, fl.m[fl.keys[i]]),
                      !.pc = IF more THEN "iterating" ELSE "done",
                      !.stopped = ~more]
    /\ UNCHANGED <<store, flags, heap, ctxs, call, before>>
    /\ UNCHANGED registryVars
    /\ UNCHANGED lockVars
    /\ UNCHANGED setVars

----------------------------------------------------------------------------
(* Context and the functions returned by registration (generation values)  *)

\* ctx = set.Context(ctx, values...), ctx being the context made last, up to
\* s.flagsMu.Unlock(): without values ctx is returned, else flags := s.flags
\* is copied under the mutex
Context(set, i, values) ==
    /\ gen = "values"
    /\ pending.st = "none"
    /\ i = Len(ctxs)
    /\ Len(ctxs) <= MaxContexts
    /\ IF values = <<>>
       THEN /\ call' = CallRecord("Context", set, 0, i, values, FALSE, NilAny, i)
            /\ before' = [heap |-> heap, ctxs |-> ctxs, ref |-> flags[set]]
            /\ UNCHANGED pending
       ELSE /\ pending' = [st |-> "snapshot", set |-> set, ctx |-> i,
                           values |-> values, ref |-> flags[set]]
            /\ call' = NoCall
            /\ before' = NoBefore
    /\ UNCHANGED <<store, flags, heap, ctxs, listing, mu, registrar>>
    /\ UNCHANGED registryVars
    /\ UNCHANGED setVars

\* Context after the unlock: the map of ctx is cloned, the values are
\* checked against the copy of the flags and written, and the context is
\* made; flags registered since the copy are not seen
ContextAttach ==
    /\ pending.st = "snapshot"
    /\ LET set == pending.set
           i == pending.ctx
           values == pending.values
           fl == Deref(store, pending.ref)
           a == CtxValue(ctxs[i], set)
           t == IF a = 0 THEN Len(heap) + 1 ELSE cloneTarget(heap, a)
           r == ContextLoop(fl, IF a = 0 THEN EmptyValues ELSE heap[a], values)
       IN  /\ heap' = IF t <= Len(heap) THEN [heap EXCEPT ![t] = r.m]
                      ELSE IF r.panics THEN heap
                      ELSE Append(heap, r.m)
           /\ ctxs' = IF r.panics THEN ctxs
                      ELSE Append(ctxs, WithValue(ctxs[i], set, t))
           /\ call' = CallRecord("Context", set, 0, i, values, r.panics, NilAny,
                                 IF r.panics THEN 0 ELSE Len(ctxs) + 1)
    /\ before' = [heap |-> heap, ctxs |-> ctxs, ref |-> pending.ref]
    /\ pending' = NoPending
    /\ UNCHANGED <<store, flags, listing, mu, registrar>>
    /\ UNCHANGED registryVars
    /\ UNCHANGED setVars

\* the function returned by the registration of flag name of the set,
\* called with the context made last
Access(set, name, i) ==
    /\ gen = "values"
    /\ i = Len(ctxs)
    /\ name \in Registered(store, flags[set])
    /\ call' = CallRecord("Access", set, name, i, <<>>, FALSE,
                          Accessor(heap, ctxs[i], set, Deref(store, flags[set]).m[name]),
                          0)
    /\ before' = NoBefore
    /\ UNCHANGED <<store, flags, heap, ctxs, listing>>
    /\ UNCHANGED registryVars
    /\ UNCHANGED lockVars
    /\ UNCHANGED setVars

----------------------------------------------------------------------------
(* Set.newFlag / FlagSet.add step by step, called by several goroutines    *)

\* Acquirable with the mutex of the set left out
AcquirableAlways(set) ==
    TRUE

\* s.mu.Lock() / s.flagsMu.Lock() returns only while no goroutine holds it
Acquirable(set) ==
    mu[set] = 0

\* the flag is built, then s.mu.Lock()
RegisterLock(p, set, name, val, desc) ==
    /\ gen \in {"free", "values"}
    /\ registrar[p].st = "idle"
    /\ Acquirable(set)
    /\ mu' = [mu EXCEPT ![set] = p]
    /\ registrar' = [registrar EXCEPT ![p] =
                        [st |-> "locked", set |-> set, f |-> NewFlag(name, val, desc)]]
    /\ UNCHANGED <<store, flags, heap, ctxs, call, before, listing, pending>>
    /\ UNCHANGED registryVars
    /\ UNCHANGED setVars

\* if _, ok := s.flags[name]; ok { panic(...) }, the deferred Unlock running
\* when it panics
RegisterCheck(p) ==
    /\ registrar[p].st = "locked"
    /\ LET set == registrar[p].set
       IN  IF isDuplicate(Deref(store, flags[set]), registrar[p].f.Name)
           THEN /\ registrar' = [registrar EXCEPT ![p].st = "panicked"]
                /\ mu' = [mu EXCEPT ![set] = 0]
           ELSE /\ registrar' = [registrar EXCEPT ![p].st = "checked"]
                /\ UNCHANGED mu
    /\ UNCHANGED <<store, flags, heap, ctxs, call, before, listing, pending>>
    /\ UNCHANGED registryVars
    /\ UNCHANGED setVars

\* s.flags[name] = f / s.flags = s.flags.add(f.Name, f), the return and the
\* deferred Unlock
RegisterWrite(p) ==
    /\ registrar[p].st = "checked"
    /\ LET set == registrar[p].set
           f == registrar[p].f
           a == flags[set]
           cur == Deref(store, a)
           t == addTarget(gen, store, a)
           new == IF gen # "free" THEN addMany(cur, f.Name, f)
                  ELSE [cur EXCEPT !.m[f.Name] = f]
       IN  /\ store' = IF t > Len(store) THEN Append(store, new)
                       ELSE [store EXCEPT ![t] = new]
           /\ flags' = [flags EXCEPT ![set] = t]
           /\ mu' = [mu EXCEPT ![set] = 0]
    /\ registrar' = [registrar EXCEPT ![p].st = "done"]
    /\ UNCHANGED <<heap, ctxs, call, before, listing, pending>>
    /\ UNCHANGED registryVars
    /\ UNCHANGED setVars

----------------------------------------------------------------------------
(* Registry (generations registry and defaults)                            *)

\* SetRegistry keeping the Registry stored first
StoredRegistryKeepsFirst(cur, r) ==
    IF cur.nil THEN r ELSE cur

\* what SetRegistry stores: nil for a nil Registry, else &r
StoredRegistry(cur, r) ==
    IF r.nil THEN NilRegistry ELSE r

\* FlagSet.SetRegistry
SetRegistry(set, r) ==
    /\ gen \in {"registry", "defaults"}
    /\ registry' = [registry EXCEPT ![set] = StoredRegistry(@, r)]
    /\ supplied' = [supplied EXCEPT ![set] = r]
    /\ call' = CallRecord("SetRegistry", set, 0, 0, <<>>, FALSE, NilAny, 0)
    /\ before' = NoBefore
    /\ UNCHANGED <<store, flags, heap, ctxs, listing>>
    /\ UNCHANGED lockVars
    /\ UNCHANGED setVars

\* the function FlagSet.Bool(name, value) builds, called: r is what
\* s.registry.Load() returns; the older Bool(name) takes no value and
\* returns false without a Registry
BoolFunc(g, r, name, val) ==
    IF r.nil
    THEN IF g = "defaults" THEN val ELSE AnyBool(FALSE)
    ELSE AnyBool(r.Bool[name])

\* a call of the function of flag name of the set: the one the registration
\* returned (via "Func") or Lookup(name).Func (via "Lookup")
Read(set, name, via) ==
    /\ gen \in {"registry", "defaults"}
    /\ name \in Registered(store, flags[set])
    /\ LET f == Deref(store, flags[set]).m[name]
       IN  call' = CallRecord(via, set, name, 0, <<f>>, FALSE,
                              BoolFunc(gen, registry[set], f.Name, f.Value), 0)
    /\ before' = NoBefore
    /\ UNCHANGED <<store, flags, heap, ctxs, listing>>
    /\ UNCHANGED registryVars
    /\ UNCHANGED lockVars
    /\ UNCHANGED setVars

----------------------------------------------------------------------------

\* the environment of a call: configuration from other goroutines
Configure(max) ==
    /\ \/ \E args \in SetStrategyArgs(gen, max) : SetStrategy(args)
       \/ \E t \in TracerArgs(gen) : SetTracer(t)
    /\ UNCHANGED replaced

\* Flag.Enabled
FlagEnabled ==
    \/ EnabledLoad
    \/ EnabledTrace

\* Experiment called again and again, the Set configured between the calls
NextLive ==
    \/ AtRest /\ Configure(1)
    \/ \E rv \in BOOLEAN : Call("Experiment", rv)
    \/ \E cb \in Callbacks : StartHook(cb)
    \/ FlagEnabled
    \/ Fork
    \/ \E b \in Branches, cb \in Callbacks : BranchBegin(b, cb)
    \/ \E b \in Branches, out \in Outcomes("E") \cup Outcomes("D") : BranchEnd(b, out)
    \/ ExperimentFinish
    \/ Crash

\* the caller and the goroutines Experiment starts keep running; a function
\* passed to Experiment need not finish, and no new call need be made
SpecLive ==
    /\ Init
    /\ [][NextLive]_vars
    /\ WF_vars(\E cb \in Callbacks : StartHook(cb))
    /\ WF_vars(FlagEnabled)
    /\ WF_vars(Fork)
    /\ WF_vars(\E b \in Branches, cb \in Callbacks : BranchBegin(b, cb))
    /\ WF_vars(ExperimentFinish)
    /\ WF_vars(Crash)

\* flags are registered by several goroutines at once
NextConcurrent ==
    \/ \E p \in Registrars, r \in RegisterArgs(gen) :
          RegisterLock(p, r[1], r[2], r[3], r[4])
    \/ \E p \in Registrars : RegisterCheck(p)
    \/ \E p \in Registrars : RegisterWrite(p)

SpecConcurrent ==
    InitOf({"free", "values"}) /\ [][NextConcurrent]_vars

\* Flag.Enabled called again and again, its steps interleaved with calls of
\* SetStrategy with one or two strategies
NextRacing ==
    \/ \E args \in SetStrategyArgs(gen, 2) : SetStrategy(args) /\ UNCHANGED replaced
    \/ Call("Enabled", FALSE)
    \/ Load
    \/ Consult
    \/ EnabledTrace

SpecRacing ==
    InitOf({"free", "cfg"}) /\ [][NextRacing]_vars

\* Switch and Experiment called one after another, with SetStrategy and
\* SetTracer called concurrently
Next ==
    \/ Configure(1)
    \/ \E o \in {"Switch", "Experiment"}, rv \in BOOLEAN : Call(o, rv)
    \/ \E cb \in Callbacks : StartHook(cb)
    \/ FlagEnabled
    \/ Fork
    \/ SwitchDispatch
    \/ \E b \in Branches, cb \in Callbacks : BranchBegin(b, cb)
    \/ \E b \in Branches, out \in Outcomes("E") \cup Outcomes("D") : BranchEnd(b, out)
    \/ ExperimentFinish
    \/ SwitchFinish
    \/ Crash

Spec ==
    Init /\ [][Next]_vars

\* decision of a strategy, NoDecision where there is none
Verdict(s) ==
    IF s.kind \in {"nil", "nilptr"} THEN NoDecision ELSE StrategyEnabled(s).d

\* the strategy of a Set replaced between calls, with chains of strategies;
\* no tracer is set
ConfigureAtRest ==
    /\ AtRest
    /\ \E args \in SetStrategyArgs(gen, MaxChain) :
          /\ SetStrategy(args)
          /\ replaced' = IF Len(args) = 1 THEN Verdict(strategy) ELSE NoDecision

\* Flag.Enabled called again and again on a Set configured between the calls
NextEnabled ==
    \/ ConfigureAtRest
    \/ Call("Enabled", FALSE)
    \/ FlagEnabled

SpecEnabled ==
    Init /\ [][NextEnabled]_vars


\* argument lists of Context: at most MaxValues of the values, each at most
\* once (two values of one name are two values)
ContextArgs ==
    {values \in UNION {[1..n -> ValueArgs] : n \in 0..MaxValues} :
        \A i, j \in 1..Len(values) : i < j => values[i] # values[j]}

\* flags are registered, contexts derived and flags read, in any order;
\* registrations also fall between the two steps of a call of Context (a
\* read changes nothing, so it is taken before or after the call)
NextContext ==
    \/ \E r \in RegisterArgs(gen) : Register(r[1], r[2], r[3], r[4])
    \/ \E set \in Sets, values \in ContextArgs : Context(set, Len(ctxs), values)
    \/ ContextAttach
    \/ /\ pending.st = "none"
       /\ \E set \in Sets, n \in Names : Access(set, n, Len(ctxs))

SpecContext ==
    InitOf({"values"}) /\ [][NextContext]_vars

\* flags are registered while the flags of a set are listed
NextListing ==
    \/ \E r \in RegisterArgs(gen) : Register(r[1], r[2], r[3], r[4])
    \/ \E set \in Sets, order \in UNION {Orders(S) : S \in SUBSET Names} :
          ListSnapshot(set, order)
    \/ ListSort
    \/ \E more \in BOOLEAN : ListYield(more)

SpecListing ==
    InitOf({"free", "values"}) /\ [][NextListing]_vars

\* Flag.Enabled called again and again, with SetStrategy and SetTracer
\* called concurrently
NextTraced ==
    \/ Configure(1)
    \/ Call("Enabled", FALSE)
    \/ FlagEnabled

SpecTraced ==
    Init /\ [][NextTraced]_vars

\* flags are registered and read while registries are set
NextRegistry ==
    \/ \E r \in RegisterArgs(gen) : Register(r[1], r[2], r[3], r[4])
    \/ \E set \in Sets, r \in RegistryArgs : SetRegistry(set, r)
    \/ \E set \in Sets, name \in Names, via \in {"Func", "Lookup"} : Read(set, name, via)

SpecRegistry ==
    InitOf({"registry", "defaults"}) /\ [][NextRegistry]_vars

----------------------------------------------------------------------------
(* Properties                                                              *)

\* (result, error) of function b
Pair(b) ==
    [result |-> branch[b].result, err |-> branch[b].err]

\* the function the decision of this call selects
Decided ==
    IF d = Enabled THEN "E" ELSE "D"

\* the call is past flag.Enabled
PastDecision ==
    op \in {"Switch", "Experiment"} /\ pc \in {"decided", "ready", "waiting", "running", "returned"}

\* C1: Experiment returns the experimental function's (result, error) when
\* the decision of the call is enabled and the control function's when it is
\* disabled; the pair of the other function is not what is returned.
C1_ExperimentReturnsSelected ==
    (op = "Experiment" /\ pc = "returned") =>
        /\ ret = Pair(Decided)
        /\ Pair("E") # Pair("D") => ret # Pair(Other(Decided))

C1_Witness ==
    /\ op = "Experiment" /\ pc = "returned" /\ d = Enabled
    /\ ret = [result |-> 2, err |-> NilErr]
    /\ Pair("D") = [result |-> 1, err |-> ErrorString("error 1")]

\* C2: in Experiment equals is called exactly once when both functions
\* finish with a nil error, and not at all when either returned an error or
\* panicked.
C2_EqualsOnlyOnSuccess ==
    (gen \in {"free", "otel"} /\ op = "Experiment") =>
        equalsCalls =
            IF /\ pc = "returned"
               /\ \A b \in Branches : ~branch[b].out.panics /\ branch[b].err = NilErr
            THEN 1 ELSE 0

\* C3: a panic in either function of Experiment is recovered and becomes
\* that function's error, a PanicError holding the recovered value; the
\* process goes on, and when only the function not selected panics the
\* selected result is returned with a nil error.
C3_ExperimentRecoversPanics ==
    (gen \in {"free", "bool"} /\ op = "Experiment") =>
        /\ pc # "crashed"
        /\ \A b \in Branches :
              branch[b].out.panics =>
                  /\ branch[b].st = "done"
                  /\ branch[b].err = PanicError(branch[b].out.err)
        /\ (/\ pc = "returned"
            /\ branch[Other(Decided)].out.panics
            /\ ~branch[Decided].out.panics
            /\ branch[Decided].out.err = NilErr)
           => ret = [result |-> branch[Decided].out.result, err |-> NilErr]

\* C4: a panic of the function called by Switch never leaves Switch: Switch
\* returns the zero result and a PanicError holding the recovered value,
\* which unwraps to the recovered value when that is an error.
C4_SwitchRecoversPanics ==
    \A b \in Branches :
        (gen \in {"free", "switch"} /\ op = "Switch" /\ branch[b].out.panics) =>
            /\ pc # "panicked"
            /\ pc = "returned" =>
                  /\ ret.result = Zero
                  /\ ret.err = PanicError(branch[b].out.err)
                  /\ Unwrap(ret.err) =
                        IF branch[b].out.err.isErr THEN branch[b].out.err ELSE NilErr

\* C5: a Switch call calls exactly one of its two functions, once: ifEnabled
\* when the decision is enabled and ifDisabled otherwise; the other function
\* is never called.
C5_SwitchRunsOneFunction ==
    op = "Switch" =>
        /\ \A b \in Branches :
              /\ invoked[b] <= 1
              /\ b # Decided => invoked[b] = 0 /\ branch[b].st = "none"
        /\ pc = "returned" => invoked[Decided] = 1

C5_Witness ==
    /\ op = "Switch" /\ pc = "returned" /\ d = Enabled
    /\ invoked["E"] = 1 /\ invoked["D"] = 0
    /\ ret = [result |-> 2, err |-> NilErr]

\* C6: Experiment returns only after both functions have finished; the
\* function not selected is not abandoned when the selected one is first.
C6_ExperimentJoinsBoth ==
    (op = "Experiment" /\ pc = "returned") =>
        \A b \in Branches :
            /\ branch[b].st \in {"done", "panicking"}
            /\ invoked[b] = 1
            /\ branch[b].out \in Outcomes(b)

\* the selected function has finished first and the call is still waiting
C6_Witness ==
    /\ op = "Experiment" /\ pc = "waiting"
    /\ branch[Decided].st = "done"
    /\ branch[Other(Decided)].st = "running"

\* a step of the two goroutines of Experiment, or of Experiment after them
ExperimentProgress ==
    \/ \E b \in Branches, cb \in Callbacks : BranchBegin(b, cb)
    \/ \E b \in Branches, out \in Outcomes("E") \cup Outcomes("D") : BranchEnd(b, out)
    \/ ExperimentFinish

\* C7: the two functions of Experiment run concurrently: when each waits for
\* the other before it returns, the call never gets stuck and returns the
\* normal result of the selected function.
C7_ConcurrentBranches ==
    (op = "Experiment" /\ rendezvous) =>
        /\ pc = "waiting" => ENABLED ExperimentProgress
        /\ pc = "returned" =>
              /\ branch["E"].out = Return(2, NilErr)
              /\ branch["D"].out = Return(1, NilErr)
              /\ ret = [result |-> IF d = Enabled THEN 2 ELSE 1, err |-> NilErr]

C7_Witness ==
    /\ op = "Experiment" /\ rendezvous /\ pc = "returned"
    /\ ret = [result |-> 2, err |-> NilErr]

\* C8: the decision of a Switch or Experiment call is fixed before a function
\* starts: a SetStrategy call during the call does not change the function
\* whose result is returned, and the decision given to the completion
\* callback of the tracer is the one of the function whose result is returned.
C8_DecisionFrozen ==
    PastDecision =>
        /\ isEnabled = (d = Enabled)
        /\ \A i \in 1..Len(events) : events[i].hook = "Decision" => events[i].d = d
        /\ \A b \in Branches : invoked[b] > 0 /\ op = "Switch" => b = Decided
        /\ pc = "returned" =>
              /\ ret = Pair(Decided)
              /\ done = "fn" =>
                    LET last == events[Len(events)]
                    IN  /\ last.hook \in {"ExperimentDone", "SwitchDone"}
                        /\ last.d = If(d = Enabled)
                        /\ ret = [result |-> last.result, err |-> last.err]
                        /\ ret = Pair(IF last.d = Enabled THEN "E" ELSE "D")

\* the strategy was replaced during the call and now decides the other way
C8_Witness ==
    /\ op = "Experiment" /\ pc = "returned" /\ done = "fn"
    /\ d = Enabled
    /\ strategy = FixedStrategy(Disabled)
    /\ ret = [result |-> 2, err |-> NilErr]
    /\ Pair("D") = [result |-> 1, err |-> NilErr]

\* the first entry of seq that is not NoDecision
FirstDecision(seq) ==
    LET made == {i \in 1..Len(seq) : seq[i] # NoDecision}
    IN  IF made = {} THEN NoDecision
        ELSE seq[CHOOSE i \in made : \A j \in made : i <= j]

\* C9: Flag.Enabled returns true iff the first value that is not NoDecision
\* among the flag's own strategy, the strategy of the Set loaded by the call
\* and the flag's default decision, in this order, is Enabled.
C9_EnabledResolution ==
    op = "Enabled" =>
        /\ pc = "tracing" =>
              ((d = Enabled) <=>
                  FirstDecision(<<Verdict(flag.strategy), Verdict(loaded),
                                  flag.decision>>) = Enabled)
        /\ pc = "returned" => (isEnabled <=> d = Enabled)

\* the strategy of the Set overrules the default of a flag whose own
\* strategy makes no decision
C9_Witness ==
    /\ op = "Enabled" /\ pc = "returned" /\ gen = "otel"
    /\ flag.strategy = FixedStrategy(NoDecision)
    /\ flag.decision = Enabled
    /\ strategy = FixedStrategy(Disabled)
    /\ d = Disabled /\ ~isEnabled

\* C10: several strategies given to SetStrategy are stored in the order
\* given; an evaluation uses the decision of the first of them that does not
\* return NoDecision, and the strategies after that one are not consulted.
C10_ChainFirstDecides ==
    /\ \A args \in SetStrategyArgs(gen, MaxChain) :
          (Len(args) > 1 /\ \A i \in 1..Len(args) : args[i].kind # "nil")
          => StoredStrategy(gen, args) = ChainStrategy([i \in 1..Len(args) |-> args[i].d])
    /\ (pc = "tracing" /\ loaded.kind = "chain") =>
          LET c == loaded.chain
              made == {i \in 1..Len(c) : c[i] # NoDecision}
          IN  IF made = {} THEN consulted = Len(c)
              ELSE LET k == CHOOSE i \in made : \A j \in made : i <= j
                   IN  consulted = k /\ d = c[k]

\* the second of three strategies decides and the third is not consulted
C10_Witness ==
    /\ op = "Enabled" /\ pc = "tracing"
    /\ loaded = ChainStrategy(<<NoDecision, Enabled, Disabled>>)
    /\ consulted = 2 /\ d = Enabled

\* the strategies of the last SetStrategy call that are not nil, in order
Kept ==
    SelectSeq(given, LAMBDA s : s.kind # "nil")

\* what Flag.Enabled computes when no strategy decides
Fallback ==
    CASE gen = "otel" -> flag.decision
      [] gen = "cfg"  -> flag.decision
      [] OTHER        -> Disabled

\* C11: nil strategies given to SetStrategy are skipped and nothing fails:
\* the strategies that are not nil form the chain, in the order given; a
\* chain whose strategies all return NoDecision is consulted to its end and
\* makes no decision; when every strategy given is nil the Set has no strategy.
C11_NilStrategiesSkipped ==
    (HasChain /\ Len(given) > 1) =>
        /\ pc # "panicked"
        /\ Kept = <<>> => strategy = NilPtr
        /\ Kept # <<>> =>
              strategy = ChainStrategy([i \in 1..Len(Kept) |-> Kept[i].d])
        /\ (/\ op = "Enabled" /\ pc = "tracing" /\ loaded = strategy
            /\ \A i \in 1..Len(Kept) : Kept[i].d = NoDecision)
           => /\ consulted = Len(Kept)
              /\ d = Fallback

\* (nil, NoDecision) was given: the chain of one strategy decides nothing
C11_Witness ==
    /\ gen = "free" /\ op = "Enabled" /\ pc = "tracing"
    /\ given = <<NilStrategy, FixedStrategy(NoDecision)>>
    /\ loaded = ChainStrategy(<<NoDecision>>)
    /\ consulted = 1 /\ d = Disabled

\* the flag registered under name n in the set
FlagOf(set, n) ==
    Deref(store, flags[set]).m[n]

\* C12: a call of Context leaves every context made before as it was, and
\* every flag read through any of them returns what it returned before the
\* call, also when the call panics after it has written some of its values;
\* a call that is given values and returns, returns a new context.
C12_ContextLeavesContextsAlone ==
    call.op = "Context" =>
        /\ SubSeq(ctxs, 1, Len(before.ctxs)) = before.ctxs
        /\ \A i \in DOMAIN before.ctxs, set \in Sets :
              \A n \in Registered(store, flags[set]) :
                  Accessor(heap, ctxs[i], set, FlagOf(set, n))
                      = Accessor(before.heap, before.ctxs[i], set, FlagOf(set, n))
        /\ (~call.panics /\ call.values # <<>>) =>
              /\ Len(ctxs) = Len(before.ctxs) + 1
              /\ call.made = Len(ctxs)
        /\ (call.panics \/ call.values = <<>>) => ctxs = before.ctxs

\* a call on a context that carries values of the set has panicked on its
\* second value, after the first was written
C12_Witness ==
    /\ call.op = "Context" /\ call.panics /\ call.set = "A"
    /\ call.values = <<IntValue(2, 7), BoolValue(1, TRUE)>>
    /\ FlagOf("A", 2).Value = AnyInt(5)
    /\ FlagOf("A", 1).Value = AnyInt(5)
    /\ CtxValue(ctxs[call.ctx], "A") # 0

\* the value of type any a Value carries
Carried(v) ==
    IF v.kind = valueKindBool THEN AnyBool(v.bool) ELSE AnyInt(v.int)

\* the positions of the values of the last call that name the flag n
Naming(n) ==
    {k \in DOMAIN call.values : call.values[k].name = n}

\* the names registered in the set of the last call of Context when the call
\* copied the flags of the set
Known ==
    Registered(store, before.ref)

\* the last call was a call of Context with values that returned
ContextReturned ==
    call.op = "Context" /\ ~call.panics /\ call.values # <<>>

\* C13: through the context a call of Context returned, a flag of the set
\* named by values of the call reads the last value given for its name, any
\* other flag of the set reads what it reads through the context passed in
\* (an override of an ancestor, or the default), and through the background
\* context every flag reads its registered default.  The flags of the call
\* are those registered when it copied the flags of the set: a flag that
\* another goroutine registers after that is one of the other flags.
C13_DerivedContextReads ==
    /\ ContextReturned =>
          \A n \in Registered(store, flags[call.set]) :
              LET f == FlagOf(call.set, n)
                  got == Accessor(heap, ctxs[call.made], call.set, f)
              IN  IF Naming(n) # {} /\ n \in Known
                  THEN got = Carried(call.values[CHOOSE k \in Naming(n) :
                                                     \A j \in Naming(n) : j <= k])
                  ELSE got = Accessor(heap, ctxs[call.ctx], call.set, f)
    /\ \A set \in Sets : \A n \in Registered(store, flags[set]) :
          Accessor(heap, Background, set, FlagOf(set, n)) = FlagOf(set, n).Value

\* the call gave two values for flag 1, flag 2 is overridden only by the
\* context passed in, and flag 1 of the other set is overridden nowhere
C13_Witness ==
    /\ ContextReturned /\ call.set = "A"
    /\ call.values = <<BoolValue(1, TRUE), BoolValue(1, FALSE)>>
    /\ FlagOf("A", 1).Value = AnyBool(FALSE)
    /\ Accessor(heap, ctxs[call.ctx], "A", FlagOf("A", 1)) = AnyBool(TRUE)
    /\ Accessor(heap, ctxs[call.made], "A", FlagOf("A", 1)) = AnyBool(FALSE)
    /\ FlagOf("A", 2).Value = AnyInt(5)
    /\ Accessor(heap, ctxs[call.made], "A", FlagOf("A", 2)) = AnyInt(7)
    /\ 1 \in Registered(store, flags["B"])
    /\ Accessor(heap, ctxs[call.made], "B", FlagOf("B", 1)) = AnyBool(FALSE)

\* the positions of the values of the last call whose kind differs from the
\* kind of the flag registered under their name in the set of the call when
\* the call copied the flags of the set
Mismatched ==
    {k \in DOMAIN call.values :
        /\ call.values[k].name \in Known
        /\ call.values[k].kind # FlagOf(call.set, call.values[k].name).Value.kind}

\* C14: Context panics exactly when one of its values has another kind than
\* the flag registered under its name; the call then returns no context, no
\* attached map holds a value of another kind than its flag, and every read
\* of a flag through any context has the kind of the flag.
C14_MismatchPanicsOnAttach ==
    /\ call.op = "Context" =>
          /\ call.panics <=> Mismatched # {}
          /\ call.panics => call.made = 0
    /\ \A i \in DOMAIN ctxs : \A j \in DOMAIN ctxs[i] :
          \A n \in Registered(store, flags[ctxs[i][j].key]) :
              LET v == heap[ctxs[i][j].m][n]
                  f == FlagOf(ctxs[i][j].key, n)
              IN  /\ v # ZeroValue => v.kind = f.Value.kind
                  /\ Accessor(heap, ctxs[i], ctxs[i][j].key, f).kind = f.Value.kind

\* a call gave a bool for a flag registered as an int, and panicked
C14_Witness ==
    /\ call.op = "Context" /\ call.panics /\ call.set = "A"
    /\ call.values = <<BoolValue(1, TRUE)>>
    /\ FlagOf("A", 1).Value = AnyInt(5)
    /\ Len(ctxs) > 1

\* C15: values attached through one set are seen only by the flags of that
\* set: through the context a call of Context returned, every flag of any
\* other set reads what it reads through the context passed in.
C15_OverridesPerSet ==
    ContextReturned =>
        \A set \in Sets \ {call.set} : \A n \in Registered(store, flags[set]) :
            Accessor(heap, ctxs[call.made], set, FlagOf(set, n))
                = Accessor(heap, ctxs[call.ctx], set, FlagOf(set, n))

\* on a context that overrides flag 1 of set A with TRUE, set B has attached
\* FALSE for its own flag 1: each set reads its own value
C15_Witness ==
    /\ ContextReturned /\ call.set = "B"
    /\ call.values = <<BoolValue(1, FALSE)>>
    /\ FlagOf("A", 1).Value = AnyBool(FALSE)
    /\ FlagOf("B", 1).Value = AnyBool(FALSE)
    /\ CtxValue(ctxs[call.made], "B") # 0
    /\ Accessor(heap, ctxs[call.made], "A", FlagOf("A", 1)) = AnyBool(TRUE)
    /\ Accessor(heap, ctxs[call.made], "B", FlagOf("B", 1)) = AnyBool(FALSE)

\* the positions of the values of the last call that name no flag
\* registered in the set of the call when the call copied the flags of the
\* set
Unknown ==
    {k \in DOMAIN call.values : call.values[k].name \notin Known}

\* C16: values of a call of Context that name no registered flag are
\* ignored: they do not make the call panic, no attached map holds a value
\* for a name that is not registered, the flags they do not name read
\* through the context returned what they read through the context passed
\* in, and a flag registered later reads its default through every context.
C16_UnknownValuesIgnored ==
    /\ (call.op = "Context" /\ Unknown = DOMAIN call.values) => ~call.panics
    /\ (ContextReturned /\ Unknown = DOMAIN call.values) =>
          \A n \in Registered(store, flags[call.set]) :
              Accessor(heap, ctxs[call.made], call.set, FlagOf(call.set, n))
                  = Accessor(heap, ctxs[call.ctx], call.set, FlagOf(call.set, n))
    /\ \A i \in DOMAIN ctxs : \A j \in DOMAIN ctxs[i] : \A n \in Names :
          heap[ctxs[i][j].m][n] # ZeroValue
              => n \in Registered(store, flags[ctxs[i][j].key])
    /\ (call.op = "Register" /\ ~call.panics) =>
          \A i \in DOMAIN ctxs :
              Accessor(heap, ctxs[i], call.set, FlagOf(call.set, call.name))
                  = FlagOf(call.set, call.name).Value

\* a call gave a value for flag 2, which is not registered, and a value
\* for flag 1, which is: it returned a context that holds the second only
C16_Witness ==
    /\ ContextReturned /\ call.set = "A"
    /\ call.values = <<IntValue(2, 7), BoolValue(1, TRUE)>>
    /\ Registered(store, flags["A"]) = {1}
    /\ heap[CtxValue(ctxs[call.made], "A")][2] = ZeroValue
    /\ heap[CtxValue(ctxs[call.made], "A")][1] = BoolValue(1, TRUE)

\* this step is a registration
RegisterStep ==
    call' # call /\ call'.op = "Register"

\* the flag registered under name n in the set after the step
FlagOfNext(set, n) ==
    Deref(store', flags'[set]).m[n]

\* C17: a registration under a name that is registered in the set panics,
\* whatever flag it would register, and leaves every registered flag as it
\* was; a registration under a free name registers its flag; the sorted
\* keys of a FlagSet hold every registered name once.
C17_DuplicateRegistrationPanics ==
    [][RegisterStep =>
          LET was == Registered(store, flags[call'.set])
          IN  /\ call'.panics <=> call'.name \in was
              /\ \A set \in Sets : \A n \in Registered(store, flags[set]) :
                    FlagOfNext(set, n) = FlagOf(set, n)
              /\ call'.panics =>
                    \A set \in Sets :
                        Deref(store', flags'[set]) = Deref(store, flags[set])
              /\ ~call'.panics =>
                    /\ FlagOfNext(call'.set, call'.name) = call'.values[1]
                    /\ Registered(store', flags'[call'.set]) = was \cup {call'.name}
              /\ gen = "values" =>
                    \A n \in Registered(store', flags'[call'.set]) :
                        Cardinality({k \in DOMAIN Deref(store', flags'[call'.set]).keys :
                                        Deref(store', flags'[call'.set]).keys[k] = n}) = 1
      ]_vars

\* a registration of an int flag with a description under the name of a
\* registered bool flag has panicked, and the bool flag is still registered
C17_Witness ==
    /\ gen = "values"
    /\ call.op = "Register" /\ call.panics /\ call.set = "A"
    /\ call.values = <<NewFlag(1, AnyInt(5), "description")>>
    /\ FlagOf("A", 1) = NewFlag(1, AnyBool(FALSE), "")
    /\ Deref(store, flags["A"]).keys = <<1, 2>>

\* C18: a Flag.Enabled call that starts after SetStrategy has returned is
\* decided by the strategies given to that call of SetStrategy, whatever the
\* strategy it replaced decided: the decision is the first one made by the
\* flag's own strategy, the strategies given, in order, and the fallback,
\* and no more strategies are consulted than were given.
C18_LastStrategyDecides ==
    (op = "Enabled" /\ pc = "tracing" /\ given # <<>>) =>
        /\ d = FirstDecision(<<Verdict(flag.strategy)>>
                                \o [i \in 1..Len(Kept) |-> Kept[i].d]
                                \o <<Fallback>>)
        /\ consulted <= Len(Kept)
        /\ Kept # <<>> => loaded.kind # "nilptr"

\* the strategy replaced decided Enabled, the strategy given decides
\* Disabled, and so does the call
C18_Witness ==
    /\ gen = "free" /\ op = "Enabled" /\ pc = "tracing"
    /\ replaced = Enabled
    /\ given = <<FixedStrategy(Disabled)>>
    /\ consulted = 1 /\ d = Disabled

\* C19: SetStrategy(nil) means no strategy: the call does not fail, and a
\* Flag.Enabled call made afterwards does not fail either and makes the
\* decision the flag makes without a strategy of the Set.
C19_NilStrategyFallsBack ==
    (gen \in {"switch", "cfg"} /\ given = <<NilStrategy>>) =>
        /\ pc # "panicked"
        /\ (op = "Enabled" /\ pc = "tracing") =>
              /\ consulted = 0
              /\ d = FirstDecision(<<Verdict(flag.strategy), Fallback>>)

\* the names of the flags the listing has yielded so far, in order
Listed ==
    [i \in DOMAIN listing.out |-> listing.out[i].Name]

\* C20: a listing yields flags that were registered in the set when it took
\* its snapshot, in ascending order of their names, each once and none
\* skipped; a listing that ran to its end has yielded all of them; a flag
\* registered after the snapshot is not yielded.
C20_ListingIsSnapshot ==
    /\ \A i \in DOMAIN Listed :
          /\ Listed[i] \in listing.at
          /\ listing.out[i] = FlagOf(listing.set, Listed[i])
          /\ \A j \in DOMAIN Listed : i < j => Listed[i] < Listed[j]
          /\ \A n \in listing.at :
                n < Listed[i] => \E j \in 1..(i - 1) : Listed[j] = n
    /\ (listing.pc = "done" /\ ~listing.stopped) =>
          {Listed[i] : i \in DOMAIN Listed} = listing.at

\* a listing of a FlagSet has yielded the one flag of its snapshot and has
\* not ended, and a second flag is registered in the set by now
C20_Witness ==
    /\ gen = "values"
    /\ listing.pc = "iterating" /\ listing.set = "A"
    /\ listing.at = {2}
    /\ Listed = <<2>>
    /\ Registered(store, flags["A"]) = {1, 2}

\* C21: a Flag.Enabled call calls no hook before its decision is made; when
\* it returns it has called the Decision hook of the tracer of the Set once
\* if the tracer has one, and no other hook, with the decision made, which
\* is Enabled if and only if Flag.Enabled returns true.
C21_DecisionHookOnce ==
    [][op' = "Enabled" =>
          /\ pc' \in {"entry", "tracing", "panicked"} => events' = <<>>
          /\ (pc # "returned" /\ pc' = "returned") =>
                /\ Len(events') = IF tracer.Decision THEN 1 ELSE 0
                /\ \A i \in DOMAIN events' :
                      /\ events'[i].hook = "Decision"
                      /\ events'[i].d = d'
                      /\ events'[i].d = Enabled <=> isEnabled'
      ]_vars

\* no strategy decides and the flag has no default: NoDecision is reported
\* and Flag.Enabled returns false
C21_Witness ==
    /\ gen = "cfg" /\ op = "Enabled" /\ pc = "returned"
    /\ tracer.Decision
    /\ strategy = FixedStrategy(NoDecision)
    /\ events = <<Event("Decision", NoDecision, Zero, NilErr, FALSE)>>
    /\ ~isEnabled

\* the positions in events of the calls of the hook
Calls(hook) ==
    {i \in DOMAIN events : events[i].hook = hook}

\* C22: the completion callback returned by the Experiment hook is not
\* called before both functions have finished and Experiment returns, and
\* is then called once, with the decision of the call, the result and the
\* error Experiment returns, and success true if and only if both functions
\* ended with a nil error and their results are equal.
C22_ExperimentCompletion ==
    op = "Experiment" =>
        /\ (done = "nil" \/ pc \notin {"returned", "crashed"}) => Calls("ExperimentDone") = {}
        /\ Cardinality(Calls("ExperimentDone")) <= 1
        /\ (done = "fn" /\ pc = "returned") =>
              /\ Calls("ExperimentDone") = {Len(events)}
              /\ \A b \in Branches : branch[b].st \in {"done", "panicking"}
              /\ events[Len(events)] =
                    Event("ExperimentDone", If(isEnabled), ret.result, ret.err,
                          /\ branch["E"].err = NilErr
                          /\ branch["D"].err = NilErr
                          /\ branch["E"].result = branch["D"].result)

\* both functions returned without an error and with different results:
\* the callback is told the result returned and that the experiment failed
C22_Witness ==
    /\ gen = "free" /\ op = "Experiment" /\ pc = "returned" /\ done = "fn"
    /\ branch["E"].out = Return(2, NilErr)
    /\ branch["D"].out = Return(1, NilErr)
    /\ events[Len(events)] = Event("ExperimentDone", Enabled, 2, NilErr, FALSE)

\* C23: the function of a flag, whether the one its registration returned
\* or Lookup(name).Func, returns what the Registry given to the last
\* SetRegistry call of the set supplies for the name of the flag, and
\* while no Registry is set the default value given at registration (false
\* where Bool takes no default value).
C23_RegistrySupplies ==
    call.op \in {"Func", "Lookup"} =>
        /\ ~call.panics
        /\ call.result =
              IF supplied[call.set].nil
              THEN IF gen = "defaults" THEN FlagOf(call.set, call.name).Value
                   ELSE AnyBool(FALSE)
              ELSE AnyBool(supplied[call.set].Bool[call.name])

C23_Witness ==
    /\ gen = "defaults"
    /\ call.op = "Lookup"
    /\ call.set = "A"
    /\ FlagOf("A", call.name).Value = AnyBool(TRUE)
    /\ supplied["A"] = Registry([n \in Names |-> FALSE])
    /\ supplied["B"] = Registry([n \in Names |-> TRUE])
    /\ call.result = AnyBool(FALSE)

\* C24: a Switch or Experiment call calls flag.Enabled once: never more
\* than once, exactly once when it is past its decision or a function has
\* started, with the strategy of the Set consulted at most once and the
\* Decision hook called at most once in the call.
C24_EvaluatedOnce ==
    op \in {"Switch", "Experiment"} =>
        /\ evaluations <= 1
        /\ consulted <= 1
        /\ Cardinality(Calls("Decision")) <= evaluations
        /\ (PastDecision \/ \E b \in Branches : invoked[b] > 0) => evaluations = 1

\* the strategy was replaced after a function started and decides otherwise
C24_Witness ==
    /\ gen = "free" /\ op = "Switch" /\ pc = "returned"
    /\ evaluations = 1 /\ consulted = 1
    /\ Cardinality(Calls("Decision")) = 1
    /\ d = Enabled /\ invoked["E"] = 1
    /\ strategy = FixedStrategy(Disabled)

\* C25: an evaluation of Flag.Enabled during which SetStrategy is called
\* calls the strategies of the strategy it loaded, in their order, whatever
\* is stored meanwhile, and its decision is the one of that strategy as a
\* whole.
C25_WholeStrategy ==
    (op = "Enabled" /\ pc \in {"chain", "tracing"}) =>
        /\ Len(trail) <= Len(ChainOf(loaded))
        /\ trail = SubSeq(ChainOf(loaded), 1, Len(trail))
        /\ pc = "tracing" =>
              /\ d = FlagDecision(gen, flag, loaded).d
              /\ consulted = FlagDecision(gen, flag, loaded).n

\* the chain was replaced by one deciding otherwise between two strategies
C25_Witness ==
    /\ gen = "cfg" /\ op = "Enabled" /\ pc = "tracing"
    /\ loaded = ChainStrategy(<<NoDecision, Enabled>>)
    /\ strategy = ChainStrategy(<<Disabled, Disabled>>)
    /\ trail = <<NoDecision, Enabled>>
    /\ d = Enabled

\* C26: Switch calls flag.Enabled before the Run/Switch hook of the tracer:
\* when the hook has been called the flag has been evaluated, and the
\* evaluation is made with the context of the caller, not with the one the
\* hook returned.
C26_EnabledBeforeHook ==
    (gen \in {"free", "bool"} /\ op = "Switch") =>
        /\ Calls("Switch") # {} => evaluations = 1
        /\ pc = "tracing" => EnabledCtx = "caller"

\* the hook invocations of function b named hook, as positions of its log
BranchCalls(b, hook) ==
    {i \in DOMAIN branch[b].log : branch[b].log[i].hook = hook}

\* C27: the branch hook is called before a function starts and the callback
\* it returned after the function has ended, with what the function
\* returned; when the function panics the panic hook is called with the
\* PanicError before that callback, which receives the zero result and the
\* PanicError.
C27_BranchHooksInOrder ==
    gen = "free" =>
        \A b \in Branches :
            LET l == branch[b].log
                panicErr == PanicError(branch[b].out.err)
            IN  /\ (branch[b].st \in {"running", "done"} /\ branch[b].t.Branch) =>
                      /\ BranchCalls(b, "Branch") = {1}
                      /\ l[1] = Event("Branch", BranchDecision(b), Zero, NilErr, FALSE)
                /\ branch[b].st = "running" => Len(l) <= 1
                /\ (branch[b].st = "done" /\ branch[b].cb = "fn") =>
                      /\ BranchCalls(b, "BranchDone") = {Len(l)}
                      /\ ~branch[b].out.panics =>
                            l[Len(l)] = Event("BranchDone", BranchDecision(b),
                                              branch[b].out.result, branch[b].out.err, FALSE)
                      /\ branch[b].out.panics =>
                            l[Len(l)] = Event("BranchDone", BranchDecision(b),
                                              Zero, panicErr, FALSE)
                /\ (branch[b].st = "done" /\ branch[b].out.panics /\ branch[b].t.BranchPanicked) =>
                      /\ BranchCalls(b, "BranchPanicked") # {}
                      /\ \A i \in BranchCalls(b, "BranchPanicked") :
                            /\ l[i] = Event("BranchPanicked", BranchDecision(b), Zero, panicErr, FALSE)
                            /\ \A j \in BranchCalls(b, "BranchDone") : i < j

\* C28: a completion callback returned by the Run/Switch hook, the
\* Experiment hook or a branch hook is called once before the call returns
\* and never twice, also when a function panics and when SetTracer is
\* called during the call; where a hook returned none, none is called.
C28_CallbacksOnce ==
    (gen = "free" /\ op \in {"Switch", "Experiment"}) =>
        LET dn == Calls("ExperimentDone") \cup Calls("SwitchDone")
        IN  /\ Cardinality(dn) <= 1
            /\ done = "nil" => dn = {}
            /\ (pc = "returned" /\ done = "fn") => Cardinality(dn) = 1
            /\ \A b \in Branches :
                  /\ Cardinality(BranchCalls(b, "BranchDone")) <= 1
                  /\ branch[b].cb = "nil" => BranchCalls(b, "BranchDone") = {}
                  /\ (pc = "returned" /\ branch[b].cb = "fn") =>
                        Cardinality(BranchCalls(b, "BranchDone")) = 1

\* the function panicked after the tracer had been replaced by the zero one
C28_Witness ==
    /\ gen = "free" /\ op = "Switch" /\ pc = "returned"
    /\ done = "fn"
    /\ tracer = ZeroTracer
    /\ branch["D"].out = Panic(Boom)
    /\ branch["D"].cb = "fn"
    /\ Cardinality(BranchCalls("D", "BranchDone")) = 1
    /\ Cardinality(Calls("SwitchDone")) = 1

\* the goroutines that have left the registration of name n in set s
Finished(s, n) ==
    {p \in Registrars : /\ registrar[p].st \in {"done", "panicked"}
                        /\ registrar[p].set = s
                        /\ registrar[p].f.Name = n}

\* C29: registrations made by several goroutines on one set end as if made
\* one after another: of the registrations of one name exactly one returns
\* and the others panic, the flag registered under the name is the one of
\* the registration that returned, and no registration is made while
\* another holds the mutex of the set.
C29_RegistrationsSerial ==
    \A s \in Sets :
        /\ Cardinality({p \in Registrars :
                           registrar[p].set = s /\ registrar[p].st \in {"locked", "checked"}}) <= 1
        /\ \A n \in Names :
              LET won == {p \in Finished(s, n) : registrar[p].st = "done"}
              IN  /\ Finished(s, n) # {} => Cardinality(won) = 1
                  /\ \A p \in won : FlagOf(s, n) = registrar[p].f
                  /\ Finished(s, n) = {} =>
                        (FlagOf(s, n) = NoFlag)

\* three goroutines: two registered different names, the third panicked
C29_Witness ==
    /\ gen = "values"
    /\ registrar[1].st = "done" /\ registrar[1].set = "A" /\ registrar[1].f.Name = 2
    /\ registrar[2].st = "panicked" /\ registrar[2].set = "A"
    /\ registrar[2].f = NewFlag(1, AnyInt(5), "description")
    /\ registrar[3].st = "done" /\ registrar[3].set = "A"
    /\ registrar[3].f = NewFlag(1, AnyBool(FALSE), "")
    /\ Registered(store, flags["A"]) = {1, 2}

\* function b has returned or panicked
Ended(b) ==
    branch[b].out # NoOutcome

\* C30: Experiment does not return before both functions have returned or
\* panicked, and once both have, Experiment returns.
C30_ExperimentReturns ==
    /\ []((gen \in {"free", "bool"} /\ op = "Experiment" /\ pc = "returned")
             => \A b \in Branches : Ended(b))
    /\ (gen \in {"free", "bool"} /\ op = "Experiment" /\ \A b \in Branches : Ended(b))
          ~> (op = "Experiment" /\ pc = "returned")

====
